---- MODULE Spec2Model ----
(***************************************************************************)
(* Pipe head loss calculator (Head_Loss_Calculator.py).                    *)
(*                                                                         *)
(* The program computes with Python floats (IEEE binary64).  TLC has only  *)
(* 32-bit integers, so a float is modelled as a binary floating-point      *)
(* number  m * 2^e  with a Prec-bit significand (2^(Prec-1) <= |m| <       *)
(* 2^Prec, or m = 0) and an unbounded exponent; every operation truncates  *)
(* its exact result to Prec bits.  The relative error of one operation is  *)
(* below 2^-(Prec-1), about 7.5e-9.  A Python exception raised while an    *)
(* expression is evaluated is modelled as an error value [err |-> name]    *)
(* that every later operation of the expression passes on unchanged.       *)
(* Overflow to inf / OverflowError is not modelled (the exponent is        *)
(* unbounded); no input of the model comes near the binary64 range.        *)
(***************************************************************************)
EXTENDS Integers, Sequences, FiniteSets, TLC

----------------------------------------------------------------------------
(* Floating-point arithmetic.  The operations are functions, so that their *)
(* arguments are values: Python evaluates the operands of an operation     *)
(* before it applies the operation.                                        *)

Prec == 28
HalfPrec == 14

Two == [n \in 0..30 |-> 2 ^ n]
Hi == Two[Prec]
Lo == Two[Prec - 1]
HalfUnit == Two[HalfPrec]

\* a value is a number [m, e], a raised exception [err], a Python complex
\* number [complex] (its value is not modelled) or None
Err(kind) == [err |-> kind]
IsErr(x) == "err" \in DOMAIN x
IsNum(x) == "m" \in DOMAIN x
IsComplex(x) == "complex" \in DOMAIN x
Complex == [complex |-> TRUE]
None == [none |-> TRUE]
Num == [m : Int, e : Int]
Value == Num \cup [err : STRING] \cup {Complex, None}

Zero == [m |-> 0, e |-> 0]

AbsInt(n) == IF n < 0 THEN -n ELSE n
SignInt(n) == IF n < 0 THEN -1 ELSE IF n = 0 THEN 0 ELSE 1

\* the number of bits of m > 0
BitLen[m \in Int] ==
    CHOOSE k \in 1..31 : Two[k - 1] <= m /\ (k = 31 \/ m < Two[k])

\* m * 2^e with m > 0 of k bits, brought to Prec bits by truncation
Shift[m \in Int, e \in Int, k \in Int] ==
    IF k > Prec THEN [m |-> m \div Two[k - Prec], e |-> e + (k - Prec)]
    ELSE [m |-> m * Two[Prec - k], e |-> e - (Prec - k)]

NormAbs[m \in Int, e \in Int] == Shift[m, e, BitLen[m]]

\* s * a
WithSign[s \in Int, a \in Num] == [m |-> s * a.m, e |-> a.e]

Norm[m \in Int, e \in Int] ==
    IF m = 0 THEN Zero ELSE WithSign[SignInt(m), NormAbs[AbsInt(m), e]]

FromInt[n \in Int] == Norm[n, 0]
One == FromInt[1]

Neg[a \in Value] == IF ~IsNum(a) THEN a ELSE [m |-> -(a.m), e |-> a.e]
Abs[a \in Value] == IF ~IsNum(a) THEN a ELSE [m |-> AbsInt(a.m), e |-> a.e]

\* a * 2^k, exact
Scale[a \in Num, k \in Int] == IF a.m = 0 THEN a ELSE [m |-> a.m, e |-> a.e + k]

\* floor(m / 2^k) of m >= 0; 0 once every bit is shifted out
ShiftRight(m, k) == IF k > 30 THEN 0 ELSE m \div Two[k]

\* a + b of numbers with a.e >= b.e: a keeps two guard bits
AddOrdered[a \in Num, b \in Num] ==
    Norm[IF a.e - b.e <= 2
         THEN a.m * Two[a.e - b.e] + b.m
         ELSE a.m * 4 + SignInt(b.m) * ShiftRight(AbsInt(b.m), a.e - b.e - 2),
         IF a.e - b.e <= 2 THEN b.e ELSE a.e - 2]

AddNum[a \in Num, b \in Num] ==
    IF a.m = 0 THEN b
    ELSE IF b.m = 0 THEN a
    ELSE AddOrdered[IF a.e >= b.e THEN a ELSE b, IF a.e >= b.e THEN b ELSE a]

Add[a \in Value, b \in Value] ==
    IF IsErr(a) THEN a
    ELSE IF IsErr(b) THEN b
    ELSE IF IsComplex(a) \/ IsComplex(b) THEN Complex
    ELSE AddNum[a, b]
Sub[a \in Value, b \in Value] == Add[a, Neg[b]]

\* floor(x * y / 2^(Prec-1)) for 0 <= x, y < 2^Prec, by HalfPrec-bit halves
MulHigh[x \in Int, y \in Int] ==
    LET x1 == x \div HalfUnit
        x0 == x % HalfUnit
        y1 == y \div HalfUnit
        y0 == y % HalfUnit
        mid == x1 * y0 + x0 * y1 + (x0 * y0) \div HalfUnit
    IN  2 * x1 * y1 + mid \div Two[HalfPrec - 1]

MulNum[a \in Num, b \in Num] ==
    IF a.m = 0 \/ b.m = 0 THEN Zero
    ELSE Norm[SignInt(a.m) * SignInt(b.m) * MulHigh[AbsInt(a.m), AbsInt(b.m)],
              a.e + b.e + Prec - 1]

Mul[a \in Value, b \in Value] ==
    IF IsErr(a) THEN a
    ELSE IF IsErr(b) THEN b
    ELSE IF IsComplex(a) \/ IsComplex(b) THEN Complex
    ELSE MulNum[a, b]

\* x ** 2 with the int exponent 2
Sq[a \in Value] == Mul[a, a]

\* one step of long division by y: the quotient so far qr[1] and the
\* remainder qr[2] gain the bits of base
DivStep[qr \in Int \X Int, y \in Int, base \in Int] ==
    << qr[1] * base + (qr[2] * base) \div y, (qr[2] * base) % y >>

\* floor(x * 2^(Prec+1) / y) for 2^(Prec-1) <= x, y < 2^Prec: three quotient
\* bits per step and two in the last
DivHigh[x \in Int, y \in Int] ==
    DivStep[DivStep[DivStep[DivStep[DivStep[DivStep[DivStep[DivStep[DivStep[
    DivStep[<< x \div y, x % y >>,
            y, 8], y, 8], y, 8], y, 8], y, 8], y, 8], y, 8], y, 8], y, 8],
            y, 4][1]

DivNum[a \in Num, b \in Num] ==
    IF a.m = 0 THEN Zero
    ELSE Norm[SignInt(a.m) * SignInt(b.m) * DivHigh[AbsInt(a.m), AbsInt(b.m)],
              a.e - b.e - (Prec + 1)]

Div[a \in Value, b \in Value] ==
    IF IsErr(a) THEN a
    ELSE IF IsErr(b) THEN b
    ELSE IF IsNum(b) /\ b.m = 0 THEN Err("ZeroDivisionError")
    ELSE IF IsComplex(a) \/ IsComplex(b) THEN Complex
    ELSE DivNum[a, b]

\* a decimal literal or a parsed decimal input  n / d
Dec[n \in Int, d \in Int] == Div[FromInt[n], FromInt[d]]

Lt[a \in Num, b \in Num] == Sub[a, b].m < 0
Le[a \in Num, b \in Num] == Sub[a, b].m <= 0
Gt[a \in Num, b \in Num] == Lt[b, a]
Ge[a \in Num, b \in Num] == Le[b, a]

\* one Newton step towards sqrt(x) from the estimate s
SqrtStep[x \in Num, s \in Num] == Scale[AddNum[s, DivNum[x, s]], -1]

\* sqrt(x) for 1 <= x < 4: a linear first estimate, then four Newton steps
SqrtNearOne[x \in Num] ==
    SqrtStep[x, SqrtStep[x, SqrtStep[x, SqrtStep[x,
        DivNum[AddNum[x, FromInt[2]], FromInt[3]]]]]]

\* the exponent of the largest even power of 2 that is <= a, for a > 0
EvenExponent[a \in Num] == (a.e + Prec - 1) - ((a.e + Prec - 1) % 2)

\* math.sqrt
Sqrt[a \in Value] ==
    IF IsErr(a) THEN a
    ELSE IF IsComplex(a) THEN Err("TypeError")
    ELSE IF a.m < 0 THEN Err("ValueError")
    ELSE IF a.m = 0 THEN Zero
    ELSE Scale[SqrtNearOne[Scale[a, -EvenExponent[a]]], EvenExponent[a] \div 2]

\* the natural logarithm of 2
Ln2 == [m |-> 186065279, e |-> -28]

\* 1 + w/3 + w^2/5 + ... + w^6/13
AtanhSeries[w \in Num] ==
    AddNum[One, MulNum[w,
    AddNum[Dec[1, 3], MulNum[w,
    AddNum[Dec[1, 5], MulNum[w,
    AddNum[Dec[1, 7], MulNum[w,
    AddNum[Dec[1, 9], MulNum[w,
    AddNum[Dec[1, 11], MulNum[w, Dec[1, 13]]]]]]]]]]]]]

\* 2 * (z + z^3/3 + z^5/5 + ... + z^13/13) = ln((1 + z) / (1 - z))
LnOfRatio[z \in Num] == Scale[MulNum[z, AtanhSeries[MulNum[z, z]]], 1]

\* ln(y) for 3/4 <= y < 3/2, with z = (y - 1) / (y + 1)
LnNearOne[y \in Num] ==
    LnOfRatio[DivNum[AddNum[y, FromInt[-1]], AddNum[y, One]]]

\* the k with a = y * 2^k and 3/4 <= y < 3/2, for a > 0
BinaryExponent[a \in Num] ==
    IF a.m >= 3 * Two[Prec - 2] THEN a.e + Prec ELSE a.e + Prec - 1

\* ln(a) of a number a > 0
LnNum[a \in Num] ==
    AddNum[MulNum[FromInt[BinaryExponent[a]], Ln2],
           LnNearOne[Scale[a, -BinaryExponent[a]]]]

Ln10 == LnNum[FromInt[10]]

\* math.log10
Log10[a \in Value] ==
    IF IsErr(a) THEN a
    ELSE IF IsComplex(a) THEN Err("TypeError")
    ELSE IF a.m <= 0 THEN Err("ValueError")
    ELSE DivNum[LnNum[a], Ln10]

\* the integer nearest to a number t with |t| < 2^(Prec-1)
RoundInt[t \in Num] ==
    IF t.e >= 0 THEN t.m * Two[t.e]
    ELSE IF -(t.e) > 29 THEN 0
    ELSE (t.m + Two[-(t.e) - 1]) \div Two[-(t.e)]

\* 1 + r * p / n
ExpTerm[r \in Num, n \in Int, p \in Num] ==
    AddNum[One, DivNum[MulNum[r, p], FromInt[n]]]

\* e^r for |r| < 1/2:  1 + r/1 * (1 + r/2 * (1 + ... (1 + r/10)))
ExpNearZero[r \in Num] ==
    ExpTerm[r, 1, ExpTerm[r, 2, ExpTerm[r, 3, ExpTerm[r, 4, ExpTerm[r, 5,
    ExpTerm[r, 6, ExpTerm[r, 7, ExpTerm[r, 8, ExpTerm[r, 9,
    ExpTerm[r, 10, One]]]]]]]]]]

\* e^t = 2^k * e^(t - k * ln 2)
ExpSplit[t \in Num, k \in Int] ==
    Scale[ExpNearZero[AddNum[t, Neg[MulNum[FromInt[k], Ln2]]]], k]

\* e^t, with k the integer nearest to t / ln 2
ExpNum[t \in Num] ==
    IF t.m # 0 /\ t.e + Prec > 10 THEN Err("OverflowError")
    ELSE ExpSplit[t, RoundInt[DivNum[t, Ln2]]]

\* x ** y for a float exponent y; a negative base with a fractional
\* exponent gives a complex number in Python 3
Pow[x \in Value, y \in Value] ==
    IF IsErr(x) THEN x
    ELSE IF IsErr(y) THEN y
    ELSE IF IsComplex(x) THEN x
    ELSE IF x.m = 0 THEN (IF y.m < 0 THEN Err("ZeroDivisionError")
                          ELSE IF y.m = 0 THEN One ELSE Zero)
    ELSE IF x.m < 0 THEN Complex
    ELSE ExpNum[MulNum[y, LnNum[x]]]

----------------------------------------------------------------------------
(* The formulas of Head_Loss_Calculator.py *)

g == Dec[981, 100]
Pi == [m |-> 210828714, e |-> -26]

max_iterations == 50
tolerance == Dec[1, 1000000]
f_initial == Dec[2, 1000]

\* A = math.pi * (D/2)**2
\* a faulty variant of area: the diameter is not halved
area_of_diameter(d_) == Mul[Pi, Sq[d_]]
area(d_) == Mul[Pi, Sq[Div[d_, FromInt[2]]]]
\* v = Q / A
velocity(q_, d_) == Div[q_, area(d_)]
\* Re = (v * D) / nu
reynolds(v_, d_, nu_) == Div[Mul[v_, d_], nu_]

LaminarLimit == FromInt[2000]
TransitionalLimit == FromInt[4000]

\* a faulty variant of regime: Re = 2000 counts as laminar
regime_laminar_at_limit(re_) ==
    IF Le[re_, LaminarLimit] THEN "Laminar"
    ELSE IF Le[re_, TransitionalLimit] THEN "Transitional"
    ELSE "Turbulent"

\* a faulty variant of regime: Re = 4000 counts as turbulent
regime_turbulent_at_limit(re_) ==
    IF Lt[re_, LaminarLimit] THEN "Laminar"
    ELSE IF Lt[re_, TransitionalLimit] THEN "Transitional"
    ELSE "Turbulent"

\* lines 51-56: the flow regime of a Reynolds number
regime(re_) ==
    IF Lt[re_, LaminarLimit] THEN "Laminar"
    ELSE IF Le[re_, TransitionalLimit] THEN "Transitional"
    ELSE "Turbulent"

relative_roughness(eps_, d_) == Div[eps_, d_]

\* one pass of the loop body of colebrook_white: f_new from f
cw_f_new(eps_, d_, re_, fcur) ==
    Div[FromInt[1],
        Sq[Mul[FromInt[-2],
               Log10[Add[Div[relative_roughness(eps_, d_), Dec[371, 100]],
                         Div[Dec[251, 100], Mul[re_, Sqrt[fcur]]]]]]]]

\* a faulty variant of cw_converged: abs() is left out
cw_converged_signed(fnew, fcur) == Lt[Sub[fnew, fcur], tolerance]
\* abs(f_new - f) < tolerance
cw_converged(fnew, fcur) == Lt[Abs[Sub[fnew, fcur]], tolerance]

\* the range check of swamee_jain
swamee_jain_warning(re_, rr_) ==
    \/ Le[re_, FromInt[4000]]
    \/ Ge[re_, FromInt[100000000]]
    \/ Lt[rr_, Dec[1, 1000000]]
    \/ Gt[rr_, Dec[1, 100]]

swamee_jain(eps_, d_, re_) ==
    Div[Dec[25, 100],
        Sq[Log10[Add[Div[relative_roughness(eps_, d_), Dec[37, 10]],
                     Div[Dec[574, 100], Pow[re_, Dec[9, 10]]]]]]]

\* simplified_friction_factor takes the laminar branch
simplified_is_laminar(re_) == Lt[re_, FromInt[2000]]
laminar(re_) == Div[FromInt[64], re_]
\* a faulty variant of blasius: the exponent 0.2 instead of 0.25
blasius_fifth_root(re_) == Div[Dec[316, 1000], Pow[re_, Dec[2, 10]]]
blasius(re_) == Div[Dec[316, 1000], Pow[re_, Dec[25, 100]]]
fixed_roughness(rr_) ==
    IF Lt[rr_, Dec[1, 10000]] THEN Dec[22, 1000]
    ELSE IF Lt[rr_, Dec[1, 1000]] THEN Dec[30, 1000]
    ELSE Dec[38, 1000]

\* a faulty variant of darcy_weisbach: v is not squared
darcy_weisbach_linear_v(f_, l_, d_, v_) ==
    Mul[Mul[f_, Div[l_, d_]], Div[v_, Mul[FromInt[2], g]]]
\* h_L = f * (L/D) * (v**2 / (2 * g))
darcy_weisbach(f_, l_, d_, v_) ==
    Mul[Mul[f_, Div[l_, d_]], Div[Sq[v_], Mul[FromInt[2], g]]]

\* h_L = (10.67 * (Q**1.85) * L) / ((C**1.85) * (D**4.87))
hazen_williams(q_, l_, c_, d_) ==
    Div[Mul[Mul[Dec[1067, 100], Pow[q_, Dec[185, 100]]], l_],
        Mul[Pow[c_, Dec[185, 100]], Pow[d_, Dec[487, 100]]]]

\* int(input(...)): the integer a line of input denotes, NotInt when int()
\* raises ValueError
NotInt == -1
int_parse(tok) ==
    CASE tok = "0" -> 0
      [] tok = "1" -> 1
      [] tok = " 2 " -> 2
      [] tok = "3" -> 3
      [] tok = "4" -> 4
      [] OTHER -> NotInt

----------------------------------------------------------------------------
(* The program: main, calculate_darcy_weisbach, colebrook_white,           *)
(* swamee_jain, simplified_friction_factor, calculate_hazen_williams       *)

VARIABLES
    pc,               \* where the program stands
    invalid,          \* menu entries rejected so far by the current menu loop
    called,           \* the head-loss functions main has called
    method_choice,    \* main: 0 until a valid choice is entered
    D, L, Q, nu, epsilon, C,   \* the inputs read so far (None: not read)
    v, Re, flow_regime,
    friction_choice,  \* calculate_darcy_weisbach: 0 until a valid choice
    turb_choice,      \* simplified_friction_factor: 0 until a valid choice
    f_i, f_new, i,    \* colebrook_white: f, f_new and the loop index
    cw_status,        \* colebrook_white: the message printed on return
    warned,           \* swamee_jain printed its range warning
    f,                \* the friction factor returned to calculate_darcy_weisbach
    h_L,              \* the head loss printed
    error             \* the exception that ended the program, "none" if none

vars == << pc, invalid, called, method_choice, D, L, Q, nu, epsilon, C, v, Re,
           flow_regime, friction_choice, turb_choice, f_i, f_new, i, cw_status,
           warned, f, h_L, error >>

\* the rejected menu entries the model follows per menu loop
MaxInvalid == 2

\* the lines typed at a menu prompt
MenuTokens == {"0", "1", " 2 ", "3", "4", "x", "1.5"}

\* the numbers typed at the float(input(...)) prompts
DInputs == {Dec[3, 10], FromInt[1]}
LInputs == {FromInt[100], FromInt[200]}
QInputs == {Dec[5, 100], Zero}
NuInputs == {Dec[1, 1000000], Dec[-1, 1000000], Dec[6, 1000], Dec[7, 100000],
             Dec[2, 10000], Zero}
EpsilonInputs == {Dec[15, 100000], Dec[3, 1000], Dec[1, 1000000], Dec[1, 100],
                  Dec[1, 10000]}
CInputs == {FromInt[130], FromInt[100], Zero}

Init ==
    /\ pc = "method_menu"
    /\ invalid = 0
    /\ called = {}
    /\ method_choice = 0
    /\ D = None /\ L = None /\ Q = None /\ nu = None /\ epsilon = None
    /\ C = None /\ v = None /\ Re = None
    /\ flow_regime = "none"
    /\ friction_choice = 0
    /\ turb_choice = 0
    /\ f_i = None /\ f_new = None /\ i = 0
    /\ cw_status = "none"
    /\ warned = FALSE
    /\ f = None
    /\ h_L = None
    /\ error = "none"

\* an exception nobody catches ends the program
Raise(x) == pc' = "crashed" /\ error' = x.err

\* a faulty variant of method_choices: 3 is accepted as well
method_choices_wide == {1, 2, 3}
\* line 18: the accepted entries of the method menu
method_choices == {1, 2}

\* main, lines 15-28: the menu loop and the call of the chosen method
main(tok) ==
    /\ pc = "method_menu"
    /\ IF int_parse(tok) \in method_choices
       THEN /\ method_choice' = int_parse(tok)
            /\ called' = called \cup
                 {IF int_parse(tok) = 1 THEN "calculate_darcy_weisbach"
                  ELSE "calculate_hazen_williams"}
            /\ pc' = IF int_parse(tok) = 1 THEN "dw_input" ELSE "hw_input"
            /\ invalid' = 0
       ELSE /\ invalid < MaxInvalid
            /\ invalid' = invalid + 1
            /\ UNCHANGED << method_choice, called, pc >>
    /\ UNCHANGED << D, L, Q, nu, epsilon, C, v, Re, flow_regime, friction_choice,
                    turb_choice, f_i, f_new, i, cw_status, warned, f, h_L, error >>

\* calculate_darcy_weisbach, lines 36-58: the inputs, v, Re and the regime
dw_inputs(d_, l_, q_, nu_, eps_) ==
    /\ pc = "dw_input"
    /\ D' = d_ /\ L' = l_ /\ Q' = q_ /\ nu' = nu_ /\ epsilon' = eps_
    /\ IF IsErr(velocity(q_, d_))
       THEN /\ Raise(velocity(q_, d_))
            /\ UNCHANGED << v, Re, flow_regime >>
       ELSE /\ v' = velocity(q_, d_)
            /\ IF IsErr(reynolds(velocity(q_, d_), d_, nu_))
               THEN /\ Raise(reynolds(velocity(q_, d_), d_, nu_))
                    /\ UNCHANGED << Re, flow_regime >>
               ELSE /\ Re' = reynolds(velocity(q_, d_), d_, nu_)
                    /\ flow_regime' = regime(Re')
                    /\ pc' = "friction_menu"
                    /\ UNCHANGED error
    /\ UNCHANGED << invalid, called, method_choice, C, friction_choice,
                    turb_choice, f_i, f_new, i, cw_status, warned, f, h_L >>

friction_choices == {1, 2, 3}

\* calculate_darcy_weisbach, lines 66-88: the friction menu loop and the call
\* of the chosen method; colebrook_white starts its loop, swamee_jain runs
\* whole, simplified_friction_factor runs up to its return or its own menu
friction_menu(tok) ==
    /\ pc = "friction_menu"
    /\ IF int_parse(tok) \notin friction_choices
       THEN /\ invalid < MaxInvalid
            /\ invalid' = invalid + 1
            /\ UNCHANGED << pc, friction_choice, f_i, i, warned, f, error >>
       ELSE /\ friction_choice' = int_parse(tok)
            /\ invalid' = 0
            /\ CASE int_parse(tok) = 1 ->
                      /\ f_i' = f_initial
                      /\ i' = 0
                      /\ pc' = "cw_loop"
                      /\ UNCHANGED << warned, f, error >>
                 [] int_parse(tok) = 2 ->
                      /\ warned' = swamee_jain_warning(
                                       Re, relative_roughness(epsilon, D))
                      /\ IF IsErr(swamee_jain(epsilon, D, Re))
                         THEN Raise(swamee_jain(epsilon, D, Re)) /\ UNCHANGED f
                         ELSE /\ f' = swamee_jain(epsilon, D, Re)
                              /\ pc' = "head_loss"
                              /\ UNCHANGED error
                      /\ UNCHANGED << f_i, i >>
                 [] OTHER ->
                      /\ IF simplified_is_laminar(Re)
                         THEN IF IsErr(laminar(Re))
                              THEN Raise(laminar(Re)) /\ UNCHANGED f
                              ELSE /\ f' = laminar(Re)
                                   /\ pc' = "head_loss"
                                   /\ UNCHANGED error
                         ELSE /\ pc' = "turb_menu"
                              /\ UNCHANGED << f, error >>
                      /\ UNCHANGED << f_i, i, warned >>
    /\ UNCHANGED << called, method_choice, D, L, Q, nu, epsilon, C, v, Re,
                    flow_regime, turb_choice, f_new, cw_status, h_L >>

\* colebrook_white, lines 114-127: one pass of the loop
cw_iterate ==
    /\ pc = "cw_loop"
    /\ i < max_iterations
    /\ IF IsErr(cw_f_new(epsilon, D, Re, f_i))
       THEN /\ Raise(cw_f_new(epsilon, D, Re, f_i))
            /\ UNCHANGED << f_i, f_new, i, cw_status, f >>
       ELSE /\ f_new' = cw_f_new(epsilon, D, Re, f_i)
            /\ IF cw_converged(f_new', f_i)
               THEN /\ cw_status' = "converged"
                    /\ f' = f_new'
                    /\ pc' = "head_loss"
                    /\ UNCHANGED << f_i, i >>
               ELSE /\ f_i' = f_new'
                    /\ i' = i + 1
                    /\ UNCHANGED << pc, cw_status, f >>
            /\ UNCHANGED error
    /\ UNCHANGED << invalid, called, method_choice, D, L, Q, nu, epsilon, C, v,
                    Re, flow_regime, friction_choice, turb_choice, warned, h_L >>

\* colebrook_white, lines 129-130: range(max_iterations) is exhausted
cw_exhausted ==
    /\ pc = "cw_loop"
    /\ i >= max_iterations
    /\ cw_status' = "max_iterations"
    /\ f' = f_i
    /\ pc' = "head_loss"
    /\ UNCHANGED << invalid, called, method_choice, D, L, Q, nu, epsilon, C, v,
                    Re, flow_regime, friction_choice, turb_choice, f_i, f_new, i,
                    warned, h_L, error >>

turb_choices == {1, 2}

\* simplified_friction_factor, lines 164-190: the menu loop and the formula
turb_menu(tok) ==
    /\ pc = "turb_menu"
    /\ IF int_parse(tok) \notin turb_choices
       THEN /\ invalid < MaxInvalid
            /\ invalid' = invalid + 1
            /\ UNCHANGED << pc, turb_choice, f >>
       ELSE /\ turb_choice' = int_parse(tok)
            /\ invalid' = 0
            /\ f' = IF int_parse(tok) = 1 THEN blasius(Re)
                    ELSE fixed_roughness(relative_roughness(epsilon, D))
            /\ pc' = "head_loss"
    /\ UNCHANGED << called, method_choice, D, L, Q, nu, epsilon, C, v, Re,
                    flow_regime, friction_choice, f_i, f_new, i, cw_status,
                    warned, h_L, error >>

\* calculate_darcy_weisbach, lines 90-96
dw_head_loss ==
    /\ pc = "head_loss"
    /\ h_L' = darcy_weisbach(f, L, D, v)
    /\ pc' = "done"
    /\ UNCHANGED << invalid, called, method_choice, D, L, Q, nu, epsilon, C, v,
                    Re, flow_regime, friction_choice, turb_choice, f_i, f_new, i,
                    cw_status, warned, f, error >>

\* calculate_hazen_williams, lines 198-220
calculate_hazen_williams(d_, l_, q_, c_) ==
    /\ pc = "hw_input"
    /\ D' = d_ /\ L' = l_ /\ Q' = q_ /\ C' = c_
    /\ IF IsErr(hazen_williams(q_, l_, c_, d_))
       THEN Raise(hazen_williams(q_, l_, c_, d_)) /\ UNCHANGED h_L
       ELSE /\ h_L' = hazen_williams(q_, l_, c_, d_)
            /\ pc' = "done"
            /\ UNCHANGED error
    /\ UNCHANGED << invalid, called, method_choice, nu, epsilon, v, Re,
                    flow_regime, friction_choice, turb_choice, f_i, f_new, i,
                    cw_status, warned, f >>

Next ==
    \/ \E tok \in MenuTokens : main(tok)
    \/ \E d_ \in DInputs, l_ \in LInputs, q_ \in QInputs, nu_ \in NuInputs,
          eps_ \in EpsilonInputs : dw_inputs(d_, l_, q_, nu_, eps_)
    \/ \E tok \in MenuTokens : friction_menu(tok)
    \/ cw_iterate
    \/ cw_exhausted
    \/ \E tok \in MenuTokens : turb_menu(tok)
    \/ dw_head_loss
    \/ \E d_ \in DInputs, l_ \in LInputs, q_ \in QInputs, c_ \in CInputs :
          calculate_hazen_williams(d_, l_, q_, c_)

Spec == Init /\ [][Next]_vars

----------------------------------------------------------------------------
(* The regime classification of lines 51-56 on its own, applied to         *)
(* Reynolds numbers around its two thresholds                              *)

\* how far around 0, 2000 and 4000 the Reynolds numbers are drawn, in halves
ReWindow == 10

\* twice the Reynolds numbers classified: k stands for Re = k / 2
ReHalves ==
    (1..ReWindow)
        \cup ((4000 - ReWindow)..(4000 + ReWindow))
        \cup ((8000 - ReWindow)..(8000 + ReWindow))
        \cup {20000, 424413, 200000000}

InitRegime ==
    /\ pc = "classify"
    /\ Re \in {Dec[k, 2] : k \in ReHalves}
    /\ invalid = 0
    /\ called = {}
    /\ method_choice = 0
    /\ D = None /\ L = None /\ Q = None /\ nu = None /\ epsilon = None
    /\ C = None /\ v = None
    /\ flow_regime = "none"
    /\ friction_choice = 0
    /\ turb_choice = 0
    /\ f_i = None /\ f_new = None /\ i = 0
    /\ cw_status = "none"
    /\ warned = FALSE
    /\ f = None
    /\ h_L = None
    /\ error = "none"

\* lines 51-56 applied to Re
classify ==
    /\ pc = "classify"
    /\ flow_regime' = regime(Re)
    /\ pc' = "classified"
    /\ UNCHANGED << invalid, called, method_choice, D, L, Q, nu, epsilon, C, v,
                    Re, friction_choice, turb_choice, f_i, f_new, i, cw_status,
                    warned, f, h_L, error >>

NextRegime == classify

SpecRegime == InitRegime /\ [][NextRegime]_vars

----------------------------------------------------------------------------
(* Properties *)

\* a run of calculate_darcy_weisbach got as far as a friction factor
FrictionReturned == pc \in {"head_loss", "done"}

\* C1: for every Re > 0 the classification gives exactly one of Laminar,
\* Transitional and Turbulent: Laminar exactly when Re < 2000, Transitional
\* exactly when 2000 <= Re <= 4000, Turbulent exactly when Re > 4000
\* (under SpecRegime, with Re = k / 2)
C1_RegimePartition ==
    pc = "classified" =>
        \E k \in ReHalves :
            /\ Re = Dec[k, 2]
            /\ flow_regime \in {"Laminar", "Transitional", "Turbulent"}
            /\ (flow_regime = "Laminar") <=> (k < 4000)
            /\ (flow_regime = "Transitional") <=> (4000 <= k /\ k <= 8000)
            /\ (flow_regime = "Turbulent") <=> (k > 8000)

\* C1, witness: Re = 4000.5, just above the upper threshold, is classified
C1_Witness ==
    pc = "classified" /\ Re = Dec[8001, 2] /\ flow_regime = "Turbulent"

\* C2 as amended: Re = 2000 is classified as Transitional (the laminar test
\* is the strict Re < 2000) and Re = 4000 is classified as Transitional
C2_Boundaries ==
    pc = "classified" =>
        /\ Re = FromInt[2000] => flow_regime = "Transitional"
        /\ Re = FromInt[4000] => flow_regime = "Transitional"

\* C2, witness: Re = 2000 exactly has been classified
C2_Witness == pc = "classified" /\ Re = FromInt[2000]

\* C2 as claimed: Re = 2000 is classified as Laminar and Re = 4000 as
\* Transitional
C2_AsClaimed ==
    pc = "classified" =>
        /\ Re = FromInt[2000] => flow_regime = "Laminar"
        /\ Re = FromInt[4000] => flow_regime = "Transitional"

\* C3: the Colebrook-White loop starts from f = 0.002 and makes at most 50
\* passes; it returns f_new at the first pass with |f_new - f| < 1e-6, every
\* pass it continues after failed that test, and after 50 failed passes it
\* returns the last f_new without an exception, reporting "Maximum iterations
\* reached" instead of "Converged"
C3_ColebrookStops ==
    /\ [](/\ i \in 0..50
          /\ cw_status \in {"none", "converged", "max_iterations"}
          /\ cw_status = "converged" =>
                /\ i < 50
                /\ Lt[Abs[Sub[f_new, f_i]], Dec[1, 1000000]]
                /\ f = f_new
                /\ error = "none"
          /\ cw_status = "max_iterations" =>
                /\ i = 50
                /\ f = f_new
                /\ error = "none")
    /\ [][/\ (pc = "friction_menu" /\ pc' = "cw_loop") =>
                (f_i' = Dec[2, 1000] /\ i' = 0)
          /\ (pc = "cw_loop" /\ pc' = "cw_loop") =>
                /\ i' = i + 1
                /\ f_i' = f_new'
                /\ ~Lt[Abs[Sub[f_new', f_i]], Dec[1, 1000000]]
          /\ (pc = "cw_loop" /\ cw_status' = "converged") =>
                (f_new' = cw_f_new(epsilon, D, Re, f_i) /\ f' = f_new')
          /\ (pc = "cw_loop" /\ cw_status' = "max_iterations") =>
                (i = 50 /\ f' = f_new /\ pc' = "head_loss")]_vars

\* C3, witness: a run whose 50 passes all failed the test has returned
C3_Witness ==
    /\ pc = "done"
    /\ cw_status = "max_iterations"
    /\ i = 50
    /\ h_L = darcy_weisbach(f_new, L, D, v)

\* C4 as claimed: a Colebrook-White solve with Re <= 0 never returns a
\* friction factor
C4_GuardsAbort ==
    (friction_choice = 1 /\ IsNum(Re) /\ Re.m <= 0) => f = None

\* C5 as claimed: the laminar branch returns 64 / Re for Re > 0, and for
\* Re <= 0 it returns nothing and ends in a DomainError
C5_LaminarDomain ==
    (friction_choice = 3 /\ turb_choice = 0
        /\ pc \in {"head_loss", "done", "crashed"}) =>
        IF Re.m > 0
        THEN f = Div[FromInt[64], Re] /\ error = "none"
        ELSE f = None /\ error = "DomainError"

\* C6 as claimed: Swamee-Jain always returns its value, and its warning is
\* printed exactly when not (4000 < Re < 10^8 and 10^-6 < eps/D < 10^-2)
C6_SwameeJainAdvisory ==
    (friction_choice = 2 /\ pc \in {"head_loss", "done", "crashed"}) =>
        /\ warned <=>
              ~(/\ Lt[FromInt[4000], Re]
                /\ Lt[Re, FromInt[100000000]]
                /\ Lt[Dec[1, 1000000], Div[epsilon, D]]
                /\ Lt[Div[epsilon, D], Dec[1, 100]])
        /\ Re.m > 0 => f = swamee_jain(epsilon, D, Re)

\* C7: at most one of the two head-loss functions is called in a run, and
\* only on a method choice of 1 or 2, which selects it; once a function is
\* called it is the only one.  The Hazen-Williams path reads no viscosity or
\* roughness and computes no friction factor, and its result is the
\* Hazen-Williams formula of (Q, L, C, D); the Darcy-Weisbach path never reads
\* C, and its result is the Darcy-Weisbach formula of (f, L, D, v)
C7_OnePath ==
    /\ Cardinality(called) <= 1
    /\ called = {} <=> pc = "method_menu"
    /\ called = {} <=> method_choice = 0
    /\ called = {"calculate_darcy_weisbach"} <=> method_choice = 1
    /\ called = {"calculate_hazen_williams"} <=> method_choice = 2
    /\ method_choice = 2 =>
          /\ nu = None /\ epsilon = None /\ v = None /\ Re = None /\ f = None
          /\ friction_choice = 0 /\ turb_choice = 0
          /\ pc = "done" => h_L = hazen_williams(Q, L, C, D)
    /\ method_choice = 1 =>
          /\ C = None
          /\ pc = "done" => h_L = darcy_weisbach(f, L, D, v)

\* C7, witness: a run of the Hazen-Williams path has printed its head loss
C7_Witness ==
    /\ pc = "done"
    /\ called = {"calculate_hazen_williams"}
    /\ C = FromInt[130]
    /\ IsNum(h_L) /\ h_L.m > 0

\* C8: the head loss printed is f * (L/D) * (v^2 / (2 * 9.81)), unclamped;
\* with the other arguments fixed, twice L gives twice h_L, twice f gives
\* twice h_L and twice v gives four times h_L; and h_L >= 0 whenever f >= 0,
\* L >= 0 and D > 0
C8_Scaling ==
    (pc = "done" /\ method_choice = 1) =>
        /\ h_L = Mul[Mul[f, Div[L, D]],
                     Div[Mul[v, v], Mul[FromInt[2], Dec[981, 100]]]]
        /\ darcy_weisbach(f, Mul[FromInt[2], L], D, v) = Mul[FromInt[2], h_L]
        /\ darcy_weisbach(Mul[FromInt[2], f], L, D, v) = Mul[FromInt[2], h_L]
        /\ darcy_weisbach(f, L, D, Mul[FromInt[2], v]) = Mul[FromInt[4], h_L]
        /\ (f.m >= 0 /\ L.m >= 0 /\ D.m > 0) => h_L.m >= 0

\* C8, witness: a Darcy-Weisbach run with L = 200 has printed a positive
\* head loss
C8_Witness ==
    /\ pc = "done"
    /\ method_choice = 1
    /\ L = FromInt[200]
    /\ f.m > 0 /\ v.m > 0 /\ h_L.m > 0

\* the end-to-end scenario of C9 has printed its head loss
Scenario ==
    /\ pc = "done"
    /\ friction_choice = 1
    /\ D = Dec[3, 10] /\ L = FromInt[100] /\ Q = Dec[5, 100]
    /\ nu = Dec[1, 1000000] /\ epsilon = Dec[15, 100000]

\* lo <= x <= hi
Within(x, lo, hi) == Le[lo, x] /\ Le[x, hi]

\* C9 as amended: the scenario gives v ~ 0.7074, Re ~ 212,200, Turbulent,
\* f ~ 0.01871 converged at the 5th pass, and h_L ~ 0.1591 m
C9_Scenario ==
    Scenario =>
        /\ Within(v, Dec[70735, 100000], Dec[70736, 100000])
        /\ Within(Re, FromInt[212200], FromInt[212210])
        /\ flow_regime = "Turbulent"
        /\ cw_status = "converged" /\ i + 1 = 5
        /\ Within(f, Dec[18712, 1000000], Dec[18713, 1000000])
        /\ Within(h_L, Dec[15906, 100000], Dec[15908, 100000])

\* C9, witness: the scenario has run to its end and converged
C9_Witness == Scenario /\ cw_status = "converged" /\ IsNum(h_L)

\* C9 as claimed, each figure taken with a margin of 2 percent: v ~ 0.7074,
\* Re ~ 212,000, Turbulent, f ~ 0.0185 converged in fewer than 50 passes,
\* h_L ~ 0.0157 m
C9_AsClaimed ==
    Scenario =>
        /\ Within(v, Dec[6933, 10000], Dec[7215, 10000])
        /\ Within(Re, FromInt[207760], FromInt[216240])
        /\ flow_regime = "Turbulent"
        /\ cw_status = "converged" /\ i + 1 < 50
        /\ Within(f, Dec[1813, 100000], Dec[1887, 100000])
        /\ Within(h_L, Dec[15386, 1000000], Dec[16014, 1000000])

\* C10 as amended: simplified_friction_factor offers Blasius and the fixed
\* roughness bands only when Re >= 2000 (transitional Re included), and then
\* returns 0.316 / Re^0.25 for Blasius, and for the bands exactly 0.022 if
\* eps/D < 1e-4, 0.030 if 1e-4 <= eps/D < 1e-3 and 0.038 otherwise; for
\* Re < 2000 it offers no choice and returns 64 / Re
C10_SimplifiedMethod ==
    /\ (pc = "turb_menu" \/ turb_choice # 0) =>
          (friction_choice = 3 /\ Ge[Re, FromInt[2000]])
    /\ (friction_choice = 3 /\ FrictionReturned) =>
          IF Lt[Re, FromInt[2000]]
          THEN turb_choice = 0 /\ f = Div[FromInt[64], Re]
          ELSE IF turb_choice = 1
          THEN f = Div[Dec[316, 1000], Pow[Re, Dec[25, 100]]]
          ELSE /\ turb_choice = 2
               /\ f = IF Lt[Div[epsilon, D], Dec[1, 10000]] THEN Dec[22, 1000]
                      ELSE IF Lt[Div[epsilon, D], Dec[1, 1000]]
                           THEN Dec[30, 1000]
                           ELSE Dec[38, 1000]

\* C10, witness: Blasius was selected at a transitional Re and its value
\* went into the head loss
C10_Witness ==
    /\ pc = "done"
    /\ turb_choice = 1
    /\ flow_regime = "Transitional"
    /\ IsNum(h_L)

\* C10 as claimed: at every Re > 0, laminar-range Re included, the simplified
\* method returns the value of a selected Blasius or fixed-band method, not
\* the laminar 64 / Re
C10_AsClaimed ==
    (friction_choice = 3 /\ FrictionReturned /\ Re.m > 0) =>
        /\ turb_choice \in turb_choices
        /\ turb_choice = 1 => f = Div[Dec[316, 1000], Pow[Re, Dec[25, 100]]]
        /\ turb_choice = 2 => f \in {Dec[22, 1000], Dec[30, 1000], Dec[38, 1000]}

====
